---- MODULE Spec2Model ----
(***************************************************************************)
(* ethkey, src/signature.rs: the 65-byte recoverable signature             *)
(* (r || s || v), its byte codec, and sign / verify over the secp256k1     *)
(* capability.                                                             *)
(*                                                                         *)
(* Byte arrays are sequences of 0..255; Rust's index i is index i+1 here.  *)
(* The curve capability is an external library.  It is modelled by a       *)
(* curve of the same shape as secp256k1 (y^2 = x^3 + 7 over a prime field, *)
(* prime group order n < p) whose field has 6 bits instead of 256, so that *)
(* signing and verification are computed, not assumed.                     *)
(***************************************************************************)
EXTENDS Integers, Sequences, FiniteSets, TLC

VARIABLES secret, message, signature, signed, edits, called

vars == <<secret, message, signature, signed, edits, called>>

----------------------------------------------------------------------------
(* Bytes                                                                    *)

Byte == 0..255

\* [v; len]
Repeat(v, len) == [i \in 1..len |-> v]

\* b ^ m for two bytes
RECURSIVE XorByte(_, _)
XorByte(b, m) ==
    IF b = 0 /\ m = 0 THEN 0
    ELSE (((b % 2) + (m % 2)) % 2) + 2 * XorByte(b \div 2, m \div 2)

\* the big-endian number the first i bytes of b hold, modulo m
RECURSIVE BigEndianModAt(_, _, _)
BigEndianModAt(b, i, m) ==
    IF i = 0 THEN 0 ELSE (BigEndianModAt(b, i - 1, m) * 256 + b[i]) % m

\* the big-endian number a byte string holds, modulo m
BigEndianMod(b, m) == BigEndianModAt(b, Len(b), m)

\* a < b for two byte strings of one length, as big-endian numbers: the
\* first byte in which they differ decides
BigEndianLess(a, b) ==
    LET diff == {i \in 1..Len(a) : a[i] # b[i]}
    IN  /\ diff # {}
        /\ LET i == CHOOSE j \in diff : \A k \in diff : j <= k
           IN  a[i] < b[i]

\* the len-byte big-endian encoding of a number below 256
BigEndian(x, len) == [i \in 1..len |-> IF i = len THEN x ELSE 0]

----------------------------------------------------------------------------
(* Signature: #[repr(C)] struct { r: [u8; 32], s: [u8; 32], v: u8 }         *)

ScalarLen == 32
PublicLen == 64
SignatureLen == 65

FieldNames == <<"r", "s", "v">>

FieldSize(f) == IF f = "v" THEN 1 ELSE ScalarLen

\* repr(C): the fields lie in declaration order; every field has alignment
\* 1, so no padding separates them.
RECURSIVE OffsetAt(_)
OffsetAt(i) == IF i = 1 THEN 0 ELSE OffsetAt(i - 1) + FieldSize(FieldNames[i - 1])

\* a layout the default representation may choose: v first
OffsetVFirst(f) == IF f = "v" THEN 0 ELSE IF f = "r" THEN 1 ELSE 1 + ScalarLen

FieldOffset(f) == OffsetAt(CHOOSE i \in 1..Len(FieldNames) : FieldNames[i] = f)

\* the bytes of field f in the storage of a Signature
ReadField(sig, f) == SubSeq(sig, FieldOffset(f) + 1, FieldOffset(f) + FieldSize(f))

\* the storage after the assignment signature.f = val (val a byte string)
WriteField(sig, f, val) ==
    [i \in 1..Len(sig) |->
        IF i > FieldOffset(f) /\ i <= FieldOffset(f) + FieldSize(f)
        THEN val[i - FieldOffset(f)]
        ELSE sig[i]]

\* Signature { r: r, s: s, v: v }
NewSignature(r, s, v) ==
    WriteField(WriteField(WriteField(Repeat(0, SignatureLen), "r", r), "s", s), "v", <<v>>)

\* Signature::default()
Default == NewSignature(Repeat(0, ScalarLen), Repeat(0, ScalarLen), 0)

\* size_of::<Signature>(): the end of the last field
SizeOfSignature == OffsetAt(Len(FieldNames) + 1)

\* mem::transmute between two types of one size: the same bytes
Transmute(x, size) == [i \in 1..size |-> x[i]]

\* a From that copies field by field and takes s from one byte too early
FromOffByOne(b) ==
    NewSignature(SubSeq(b, 1, ScalarLen), SubSeq(b, ScalarLen, 2 * ScalarLen - 1), b[SignatureLen])

\* From<[u8; 65]> for Signature
From(b) == Transmute(b, SizeOfSignature)

\* Into<[u8; 65]> for Signature
Into(sig) == Transmute(sig, SignatureLen)

\* Deref: &Signature as &[u8; 65], the same storage
Deref(sig) == Transmute(sig, SignatureLen)

\* DerefMut: (*signature)[i] = b, Rust index i
DerefMutWrite(sig, i, b) == [sig EXCEPT ![i + 1] = b]

----------------------------------------------------------------------------
(* The curve capability (crate secp256k1, context SECP256K1)                *)

\* y^2 = x^3 + CurveB over the field of CurveP elements; the group has the
\* prime order CurveN < CurveP and is generated by Generator.
CurveP == 43
CurveB == 7
CurveN == 31
Generator == <<2, 12>>

\* the point at infinity
Infinity == <<>>

ModInv(a, m) == CHOOSE b \in 1..(m - 1) : (a * b) % m = 1

OnCurve(x, y) == (y * y) % CurveP = (x * x * x + CurveB) % CurveP

PointAdd(P, Q) ==
    IF P = Infinity THEN Q
    ELSE IF Q = Infinity THEN P
    ELSE IF P[1] = Q[1] /\ (P[2] + Q[2]) % CurveP = 0 THEN Infinity
    ELSE LET l == IF P = Q
                  THEN (3 * P[1] * P[1] * ModInv((2 * P[2]) % CurveP, CurveP)) % CurveP
                  ELSE ((Q[2] - P[2]) * ModInv((Q[1] - P[1]) % CurveP, CurveP)) % CurveP
             x == (l * l - P[1] - Q[1]) % CurveP
         IN  <<x, (l * (P[1] - x) - P[2]) % CurveP>>

RECURSIVE PointMul(_, _)
PointMul(k, P) ==
    IF k = 0 THEN Infinity
    ELSE LET h == PointMul(k \div 2, P)
             d == PointAdd(h, h)
         IN  IF k % 2 = 1 THEN PointAdd(d, P) ELSE d

\* a 32-byte string is a scalar when its number is below the group order
ScalarOverflow(b) == ~BigEndianLess(b, BigEndian(CurveN, ScalarLen))
ScalarOf(b) == BigEndianMod(b, CurveN)

\* a 32-byte string is a field element when its number is below CurveP
FieldOverflow(b) == ~BigEndianLess(b, BigEndian(CurveP, ScalarLen))

Ok(x) == [tag |-> "Ok", val |-> x]
Err(e) == [tag |-> "Err", err |-> e]

\* Message::from_slice: any 32 bytes are a message
MessageFromSlice(m) == IF Len(m) = ScalarLen THEN Ok(m) ELSE Err("InvalidMessage")

\* RecoveryId::from_i32
MaxRecoveryId == 3
RecoveryIdFromI32(id) ==
    IF id >= 0 /\ id <= MaxRecoveryId THEN Ok(id) ELSE Err("InvalidRecoveryId")

\* the secret key check of the capability: 0 < d < n
SecretKeyValid(sec) == ~ScalarOverflow(sec) /\ ScalarOf(sec) # 0

\* the deterministic nonce (RFC 6979 in the capability): a fixed function
\* of the secret, the digest and the attempt, in 1..n-1
Nonce(d, z, attempt) == ((5 * d + 3 * z + attempt) % (CurveN - 1)) + 1

\* the signing loop of the capability: the first attempt whose r and s are
\* both nonzero; s is normalised to the lower half, which flips the parity
\* bit of the recovery id
RECURSIVE SignAttempt(_, _, _)
SignAttempt(d, z, attempt) ==
    LET k == Nonce(d, z, attempt)
        R == PointMul(k, Generator)
        r == R[1] % CurveN
        s == (ModInv(k, CurveN) * (z + r * d)) % CurveN
        id == (R[2] % 2) + (IF R[1] >= CurveN THEN 2 ELSE 0)
        high == 2 * s > CurveN
    IN  IF r = 0 \/ s = 0 THEN SignAttempt(d, z, attempt + 1)
        ELSE [r |-> r,
              s |-> IF high THEN CurveN - s ELSE s,
              id |-> IF high THEN XorByte(id, 1) ELSE id]

\* Secp256k1::sign_recoverable
SignRecoverable(msg, sec) ==
    IF ~SecretKeyValid(sec) THEN Err("InvalidSecretKey")
    ELSE Ok(SignAttempt(ScalarOf(sec), ScalarOf(msg), 0))

\* RecoverableSignature::serialize_compact: (recovery id, r || s)
SerializeCompact(rsig) ==
    [id |-> rsig.id, data |-> BigEndian(rsig.r, ScalarLen) \o BigEndian(rsig.s, ScalarLen)]

\* RecoveryId::to_i32
RecoveryIdToI32(id) == id

\* RecoverableSignature::from_compact: r and s must be below the order
FromCompact(data, id) ==
    IF Len(data) # 2 * ScalarLen THEN Err("InvalidSignature")
    ELSE LET rb == SubSeq(data, 1, ScalarLen)
             sb == SubSeq(data, ScalarLen + 1, 2 * ScalarLen)
         IN  IF ScalarOverflow(rb) \/ ScalarOverflow(sb) THEN Err("InvalidSignature")
             ELSE Ok([r |-> ScalarOf(rb), s |-> ScalarOf(sb), id |-> id])

\* RecoverableSignature::to_standard: the recovery id is dropped
ToStandard(rsig) == [r |-> rsig.r, s |-> rsig.s]

\* PublicKey::from_slice of a 65-byte tagged encoding
PublicKeyFromSlice(pdata) ==
    IF Len(pdata) # PublicLen + 1 \/ pdata[1] # 4 THEN Err("InvalidPublicKey")
    ELSE LET xb == SubSeq(pdata, 2, ScalarLen + 1)
             yb == SubSeq(pdata, ScalarLen + 2, PublicLen + 1)
             x == BigEndianMod(xb, CurveP)
             y == BigEndianMod(yb, CurveP)
         IN  IF FieldOverflow(xb) \/ FieldOverflow(yb) \/ ~OnCurve(x, y)
             THEN Err("InvalidPublicKey")
             ELSE Ok(<<x, y>>)

\* Secp256k1::verify: Ok(()) or Err(IncorrectSignature)
CapabilityVerify(msg, sig, publ) ==
    IF sig.r = 0 \/ sig.s = 0 \/ 2 * sig.s > CurveN THEN Err("IncorrectSignature")
    ELSE LET z == ScalarOf(msg)
             w == ModInv(sig.s, CurveN)
             R == PointAdd(PointMul((z * w) % CurveN, Generator),
                           PointMul((sig.r * w) % CurveN, publ))
         IN  IF R # Infinity /\ R[1] % CurveN = sig.r THEN Ok(TRUE)
             ELSE Err("IncorrectSignature")

\* Error::from(SecpError): the capability's classification is kept
ErrorFrom(e) == e

\* the public key of a secret (key generation): the 64 bytes X || Y of d*G
PublicOf(sec) ==
    LET Q == PointMul(ScalarOf(sec), Generator)
    IN  BigEndian(Q[1], ScalarLen) \o BigEndian(Q[2], ScalarLen)

----------------------------------------------------------------------------
(* sign and verify                                                          *)

\* a sign that lays s before r
SignSwapped(sec, msg) ==
    LET m == MessageFromSlice(msg)
    IN  IF m.tag = "Err" THEN Err(ErrorFrom(m.err))
        ELSE LET s == SignRecoverable(m.val, Transmute(sec, ScalarLen))
             IN  IF s.tag = "Err" THEN Err(ErrorFrom(s.err))
                 ELSE LET c == SerializeCompact(s.val)
                          s1 == WriteField(Default, "s", SubSeq(c.data, 1, ScalarLen))
                          s2 == WriteField(s1, "r", SubSeq(c.data, ScalarLen + 1, 2 * ScalarLen))
                      IN  Ok(WriteField(s2, "v", <<RecoveryIdToI32(c.id) % 256>>))

\* a sign that swallows the capability's failure
SignSwallow(sec, msg) ==
    LET m == MessageFromSlice(msg)
        s == SignRecoverable(msg, Transmute(sec, ScalarLen))
    IN  IF m.tag = "Err" \/ s.tag = "Err" THEN Ok(Default)
        ELSE LET c == SerializeCompact(s.val)
                 s1 == WriteField(Default, "r", SubSeq(c.data, 1, ScalarLen))
                 s2 == WriteField(s1, "s", SubSeq(c.data, ScalarLen + 1, 2 * ScalarLen))
             IN  Ok(WriteField(s2, "v", <<RecoveryIdToI32(c.id) % 256>>))

\* a sign that stores the recovery id in the Ethereum convention, 27 + id
SignV27(sec, msg) ==
    LET m == MessageFromSlice(msg)
    IN  IF m.tag = "Err" THEN Err(ErrorFrom(m.err))
        ELSE LET s == SignRecoverable(m.val, Transmute(sec, ScalarLen))
             IN  IF s.tag = "Err" THEN Err(ErrorFrom(s.err))
                 ELSE LET c == SerializeCompact(s.val)
                          s1 == WriteField(Default, "r", SubSeq(c.data, 1, ScalarLen))
                          s2 == WriteField(s1, "s", SubSeq(c.data, ScalarLen + 1, 2 * ScalarLen))
                      IN  Ok(WriteField(s2, "v", <<(27 + RecoveryIdToI32(c.id)) % 256>>))

\* sign(secret, message): the secret reaches the capability unchecked (the
\* transmute to &SecretKey); both try! return the capability's error
Sign(sec, msg) ==
    LET m == MessageFromSlice(msg)
    IN  IF m.tag = "Err" THEN Err(ErrorFrom(m.err))
        ELSE LET s == SignRecoverable(m.val, Transmute(sec, ScalarLen))
             IN  IF s.tag = "Err" THEN Err(ErrorFrom(s.err))
                 ELSE LET c == SerializeCompact(s.val)
                          s1 == WriteField(Default, "r", SubSeq(c.data, 1, ScalarLen))
                          s2 == WriteField(s1, "s", SubSeq(c.data, ScalarLen + 1, 2 * ScalarLen))
                      IN  Ok(WriteField(s2, "v", <<RecoveryIdToI32(c.id) % 256>>))

\* a tagged encoding with the public key copied into bytes 0..64
TaggedPublicShifted(public) ==
    [i \in 1..(PublicLen + 1) |-> IF i = PublicLen + 1 THEN 4 ELSE public[i]]

\* the tagged encoding verify builds: [4u8; 65] with the public key copied
\* into bytes 1..65
TaggedPublic(public) == [i \in 1..(PublicLen + 1) |-> IF i = 1 THEN 4 ELSE public[i - 1]]

\* the steps of verify after the signature has been rebuilt
VerifyRest(public, rsig, msg) ==
    LET sig == ToStandard(rsig)
        publ == PublicKeyFromSlice(TaggedPublic(public))
    IN  IF publ.tag = "Err" THEN Err(ErrorFrom(publ.err))
        ELSE LET m == MessageFromSlice(msg)
             IN  IF m.tag = "Err" THEN Err(ErrorFrom(m.err))
                 ELSE LET c == CapabilityVerify(m.val, sig, publ.val)
                      IN  IF c.tag = "Ok" THEN Ok(TRUE)
                          ELSE IF c.err = "IncorrectSignature" THEN Ok(FALSE)
                          ELSE Err(ErrorFrom(c.err))

\* a verify that parses r and s before it looks at the recovery id
VerifyScalarsFirst(public, sig, msg) ==
    LET rsig == FromCompact(SubSeq(Deref(sig), 1, 2 * ScalarLen), 0)
    IN  IF rsig.tag = "Err" THEN Err(ErrorFrom(rsig.err))
        ELSE LET id == RecoveryIdFromI32(Deref(sig)[SignatureLen])
             IN  IF id.tag = "Err" THEN Err(ErrorFrom(id.err))
                 ELSE VerifyRest(public, rsig.val, msg)

\* a verify that reports every failure of the capability as a mismatch
VerifyCollapse(public, sig, msg) ==
    LET id == RecoveryIdFromI32(Deref(sig)[SignatureLen])
    IN  IF id.tag = "Err" THEN Ok(FALSE)
        ELSE LET rsig == FromCompact(SubSeq(Deref(sig), 1, 2 * ScalarLen), id.val)
             IN  IF rsig.tag = "Err" THEN Ok(FALSE)
                 ELSE LET res == VerifyRest(public, rsig.val, msg)
                      IN  IF res.tag = "Err" THEN Ok(FALSE) ELSE res

\* a verify that also requires the parity bit of the recovery id to be 0
VerifyUsesId(public, sig, msg) ==
    LET id == RecoveryIdFromI32(Deref(sig)[SignatureLen])
    IN  IF id.tag = "Err" THEN Err(ErrorFrom(id.err))
        ELSE LET rsig == FromCompact(SubSeq(Deref(sig), 1, 2 * ScalarLen), id.val)
             IN  IF rsig.tag = "Err" THEN Err(ErrorFrom(rsig.err))
                 ELSE IF rsig.val.id % 2 = 1 THEN Ok(FALSE)
                 ELSE VerifyRest(public, rsig.val, msg)

\* verify(public, signature, message)
Verify(public, sig, msg) ==
    LET id == RecoveryIdFromI32(Deref(sig)[SignatureLen])
    IN  IF id.tag = "Err" THEN Err(ErrorFrom(id.err))
        ELSE LET rsig == FromCompact(SubSeq(Deref(sig), 1, 2 * ScalarLen), id.val)
             IN  IF rsig.tag = "Err" THEN Err(ErrorFrom(rsig.err))
                 ELSE VerifyRest(public, rsig.val, msg)

----------------------------------------------------------------------------
(* The caller: a secret and a digest, one Signature object that sign fills  *)
(* and that is then written through its fields and its byte view, and calls *)
(* of verify and into on what it holds.  signed records the call of sign,   *)
(* called the last call of verify or into, each with its arguments.         *)

MaxSecret == 3
MaxDigest == 1
MaxPublic == 3
MaxEdits == 1

\* the secrets tried: 0 and the order of the group are not valid scalars,
\* nor is a string whose high byte is set
SecretInputs ==
    {BigEndian(d, ScalarLen) : d \in 0..MaxSecret}
        \cup {BigEndian(CurveN, ScalarLen), Repeat(255, ScalarLen)}

\* the digests tried: [1u8; 32] is the digest of the repository's test
MessageInputs == {BigEndian(z, ScalarLen) : z \in 0..MaxDigest} \cup {Repeat(1, ScalarLen)}

\* the public keys tried: keys of valid secrets, and two strings that are
\* no point of the curve
PublicInputs ==
    {PublicOf(BigEndian(d, ScalarLen)) : d \in 1..MaxPublic}
        \cup {Repeat(0, PublicLen), Repeat(255, PublicLen)}

\* the 65-byte arrays converted
ArrayInputs == {Repeat(255, SignatureLen), [i \in 1..SignatureLen |-> i]}

\* the bytes written through the view, and the masks they are changed by
ViewIndexes == {0, 2 * ScalarLen - 1, 2 * ScalarLen}
Masks == {1}

\* the values assigned to the field v
VInputs == {3, 4}

NoSign == [done |-> FALSE, secret |-> <<>>, message |-> <<>>, res |-> Err("")]
NoCall == [op |-> "none", public |-> <<>>, signature |-> <<>>, message |-> <<>>, res |-> Err("")]

Init ==
    /\ secret \in SecretInputs
    /\ message \in MessageInputs
    /\ signature = Default
    /\ signed = NoSign
    /\ edits = 0
    /\ called = NoCall

\* let signature = sign(&secret, &message)
DoSign ==
    /\ ~signed.done
    /\ LET res == Sign(secret, message)
       IN  /\ signed' = [done |-> TRUE, secret |-> secret, message |-> message, res |-> res]
           /\ signature' = IF res.tag = "Ok" THEN res.val ELSE signature
    /\ UNCHANGED <<secret, message, edits, called>>

\* signature = Signature::from(b)
DoFrom(b) ==
    /\ signed.done
    /\ edits < MaxEdits
    /\ signature' = From(b)
    /\ edits' = edits + 1
    /\ UNCHANGED <<secret, message, signed, called>>

\* signature[i] ^= mask, through the mutable byte view
DoWriteView(i, mask) ==
    /\ signed.done
    /\ edits < MaxEdits
    /\ signature' = DerefMutWrite(signature, i, XorByte(Deref(signature)[i + 1], mask))
    /\ edits' = edits + 1
    /\ UNCHANGED <<secret, message, signed, called>>

\* signature.v = x
DoWriteV(x) ==
    /\ signed.done
    /\ edits < MaxEdits
    /\ signature' = WriteField(signature, "v", <<x>>)
    /\ edits' = edits + 1
    /\ UNCHANGED <<secret, message, signed, called>>

\* signature.r[i] = 0 or signature.s[i] = 0
DoWriteScalar(f, i) ==
    /\ signed.done
    /\ edits < MaxEdits
    /\ signature' = WriteField(signature, f, [ReadField(signature, f) EXCEPT ![i + 1] = 0])
    /\ edits' = edits + 1
    /\ UNCHANGED <<secret, message, signed, called>>

\* message[i] ^= mask
DoWriteMessage(i, mask) ==
    /\ signed.done
    /\ edits < MaxEdits
    /\ message' = [message EXCEPT ![i + 1] = XorByte(message[i + 1], mask)]
    /\ edits' = edits + 1
    /\ UNCHANGED <<secret, signature, signed, called>>

\* verify(&public, &signature, &message)
DoVerify(public) ==
    /\ called' = [op |-> "verify", public |-> public, signature |-> signature,
                  message |-> message, res |-> Verify(public, signature, message)]
    /\ UNCHANGED <<secret, message, signature, signed, edits>>

\* let array: [u8; 65] = signature.into()
DoInto ==
    /\ called' = [op |-> "into", public |-> <<>>, signature |-> signature,
                  message |-> <<>>, res |-> Ok(Into(signature))]
    /\ UNCHANGED <<secret, message, signature, signed, edits>>

\* the key of the caller's own secret, when it has one
OwnPublic == IF SecretKeyValid(secret) THEN {PublicOf(secret)} ELSE {}

\* sign, writes to what it returned and to the digest, and verify
Next ==
    \/ DoSign
    \/ \E b \in ArrayInputs : DoFrom(b)
    \/ \E i \in ViewIndexes, mask \in Masks : DoWriteView(i, mask)
    \/ \E x \in VInputs : DoWriteV(x)
    \/ \E mask \in Masks : DoWriteMessage(ScalarLen - 1, mask)
    \/ \E public \in PublicInputs \cup OwnPublic : DoVerify(public)

\* the codec: sign, from, into and writes through the fields and the view
NextCodec ==
    \/ DoSign
    \/ \E b \in ArrayInputs : DoFrom(b)
    \/ DoInto
    \/ \E i \in ViewIndexes, mask \in Masks : DoWriteView(i, mask)
    \/ \E x \in VInputs : DoWriteV(x)
    \/ \E f \in {"r", "s"} : DoWriteScalar(f, ScalarLen - 1)

Spec == Init /\ [][Next]_vars

SpecCodec == Init /\ [][NextCodec]_vars

----------------------------------------------------------------------------
(* Claims                                                                   *)

\* the call recorded in called is verify on exactly what sign returned, for
\* the digest that was signed
VerifiedSigned ==
    /\ signed.done /\ signed.res.tag = "Ok"
    /\ called.op = "verify"
    /\ called.signature = signed.res.val
    /\ called.message = signed.message

\* C1: for a valid keypair and a digest, verify of what sign returned, under
\* the public key of the signing secret and for the signed digest, is Ok(true).
C1_RoundTrip ==
    (VerifiedSigned /\ called.public = PublicOf(signed.secret)) => called.res = Ok(TRUE)

\* the round trip of the repository's test: the digest [1u8; 32]
C1_Witness ==
    /\ VerifiedSigned /\ called.public = PublicOf(signed.secret)
    /\ signed.message = Repeat(1, ScalarLen)
    /\ called.res = Ok(TRUE)

\* the fields of two Signatures agree
SameFields(a, b) == \A f \in {"r", "s", "v"} : ReadField(a, f) = ReadField(b, f)

\* C2: from then into gives back the 65 bytes, whose slices 0..32, 32..64 and
\* byte 64 are the fields r, s and v; into then from gives back a Signature
\* with the same fields.
C2_ByteRoundTrip ==
    [][ /\ \A b \in ArrayInputs :
             DoFrom(b) =>
                /\ Into(signature') = b
                /\ ReadField(signature', "r") = SubSeq(b, 1, ScalarLen)
                /\ ReadField(signature', "s") = SubSeq(b, ScalarLen + 1, 2 * ScalarLen)
                /\ ReadField(signature', "v") = <<b[SignatureLen]>>
        /\ DoInto =>
                /\ Len(called'.res.val) = SignatureLen
                /\ SameFields(From(called'.res.val), signature) ]_vars

\* into was applied to a Signature that from built
C2_Witness ==
    /\ called.op = "into"
    /\ called.signature = From([i \in 1..SignatureLen |-> i])
    /\ called.res = Ok([i \in 1..SignatureLen |-> i])

\* the byte at Rust index 64 of a Signature
VOf(sig) == Deref(sig)[SignatureLen]

\* C3: verify of a signature whose byte 64 is above the largest recovery id
\* returns the recovery-id error, whatever r, s, the public key and the
\* digest are.
C3_RecoveryIdBound ==
    (called.op = "verify" /\ VOf(called.signature) > MaxRecoveryId)
        => called.res = Err(ErrorFrom("InvalidRecoveryId"))

\* a bad recovery id together with r and s above the order and a public key
\* that is no point
C3_Witness ==
    /\ called.op = "verify"
    /\ called.signature = Repeat(255, SignatureLen)
    /\ called.public = Repeat(255, PublicLen)
    /\ called.res = Err(ErrorFrom("InvalidRecoveryId"))

\* the inputs of a call of verify are all well formed
WellFormed(c) ==
    /\ VOf(c.signature) <= MaxRecoveryId
    /\ ~ScalarOverflow(SubSeq(Deref(c.signature), 1, ScalarLen))
    /\ ~ScalarOverflow(SubSeq(Deref(c.signature), ScalarLen + 1, 2 * ScalarLen))
    /\ PublicKeyFromSlice(<<4>> \o c.public).tag = "Ok"

\* what the capability's check says for a well-formed call
CheckOf(c) ==
    CapabilityVerify(c.message,
                     [r |-> ScalarOf(SubSeq(Deref(c.signature), 1, ScalarLen)),
                      s |-> ScalarOf(SubSeq(Deref(c.signature), ScalarLen + 1, 2 * ScalarLen))],
                     PublicKeyFromSlice(<<4>> \o c.public).val)

\* C4: verify returns Ok(false) exactly when every input is well formed and
\* the capability's check reports IncorrectSignature; with a malformed input
\* it returns Err.
C4_ResultMapping ==
    called.op = "verify" =>
        /\ called.res = Ok(FALSE)
              <=> (WellFormed(called) /\ CheckOf(called) = Err("IncorrectSignature"))
        /\ ~WellFormed(called) => called.res.tag = "Err"
        /\ called.res = Ok(TRUE) <=> (WellFormed(called) /\ CheckOf(called).tag = "Ok")

\* a correct signature under a public key that is no point: an error
C4_Witness ==
    /\ VerifiedSigned
    /\ called.public = Repeat(0, PublicLen)
    /\ called.res = Err(ErrorFrom("InvalidPublicKey"))

\* the public keys the capability recovers from r, s and the digest, one for
\* each recovery id that names a point: Q = r^-1 (s R - z G), where R has
\* the abscissa r (ids 0, 1) or r + n (ids 2, 3) and the parity of the id
RecoveredKeys(sig, msg) ==
    LET r == ScalarOf(ReadField(sig, "r"))
        s == ScalarOf(ReadField(sig, "s"))
        z == ScalarOf(msg)
        w == ModInv(r, CurveN)
        Points(id) == LET x == r + (IF id >= 2 THEN CurveN ELSE 0)
                      IN  {<<x, y>> : y \in {y \in 0..(CurveP - 1) :
                                                x < CurveP /\ OnCurve(x, y) /\ y % 2 = id % 2}}
        Key(R) == PointAdd(PointMul((s * w) % CurveN, R),
                           PointMul(((CurveN - z) * w) % CurveN, Generator))
    IN  {BigEndian(Q[1], ScalarLen) \o BigEndian(Q[2], ScalarLen) :
            Q \in {Key(R) : R \in UNION {Points(id) : id \in 0..MaxRecoveryId}} \ {Infinity}}

\* verify of what A signed, for the signed digest, under the key of another
\* keypair B
CrossKey ==
    /\ VerifiedSigned
    /\ called.public # PublicOf(signed.secret)
    /\ PublicKeyFromSlice(<<4>> \o called.public).tag = "Ok"

\* C6 as stated: under the public key of any other keypair, verify of what A
\* signed is Ok(false).
C6_CrossKeyAlwaysFalse == CrossKey => called.res = Ok(FALSE)

\* C6, amended: under the public key of another keypair B, verify of what A
\* signed never fails, and it is Ok(true) exactly when B's key is one of the
\* at most four keys that (r, s) recovers to for the digest (A's is the one
\* that v selects); for every other B it is Ok(false).
C6_CrossKey ==
    CrossKey =>
        /\ called.res = Ok(called.public \in RecoveredKeys(called.signature, called.message))
        /\ PublicOf(signed.secret) \in RecoveredKeys(called.signature, called.message)
        /\ Cardinality(RecoveredKeys(called.signature, called.message)) <= MaxRecoveryId + 1

\* another keypair's key is rejected with Ok(false)
C6_Witness == CrossKey /\ called.res = Ok(FALSE)

\* C7: sign with a secret that is no valid scalar returns the capability's
\* error, and an error of sign is always the capability's; the Signature is
\* returned only when the capability signed.
C7_SignFailure ==
    signed.done =>
        /\ ~SecretKeyValid(signed.secret) => signed.res = Err(ErrorFrom("InvalidSecretKey"))
        /\ signed.res.tag = "Err" => signed.res = Err(ErrorFrom(SignRecoverable(signed.message, signed.secret).err))
        /\ signed.res.tag = "Ok" <=> SignRecoverable(signed.message, signed.secret).tag = "Ok"

\* sign was called with the all-0xff secret, which is above the group order
C7_Witness ==
    /\ signed.done
    /\ signed.secret = Repeat(255, ScalarLen)
    /\ signed.res = Err(ErrorFrom("InvalidSecretKey"))

\* C8: what sign returns holds the capability's r in bytes 0..32, its s in
\* bytes 32..64 and its recovery id in byte 64, which is at most 3 and is
\* accepted by verify's recovery-id check.
C8_SignEncoding ==
    (signed.done /\ signed.res.tag = "Ok") =>
        LET c == SerializeCompact(SignRecoverable(signed.message, signed.secret).val)
            view == Deref(signed.res.val)
        IN  /\ SubSeq(view, 1, ScalarLen) = SubSeq(c.data, 1, ScalarLen)
            /\ SubSeq(view, ScalarLen + 1, 2 * ScalarLen) = SubSeq(c.data, ScalarLen + 1, 2 * ScalarLen)
            /\ view[SignatureLen] = RecoveryIdToI32(c.id)
            /\ view[SignatureLen] \in 0..3
            /\ ReadField(signed.res.val, "v") = <<view[SignatureLen]>>
            /\ RecoveryIdFromI32(view[SignatureLen]).tag = "Ok"

\* sign returned a signature whose recovery id is the largest one
C8_Witness ==
    /\ signed.done /\ signed.res.tag = "Ok"
    /\ VOf(signed.res.val) = MaxRecoveryId

\* the byte view and the fields of a Signature show the same bytes
LayoutOK(sig) ==
    /\ Len(Deref(sig)) = SignatureLen
    /\ \A i \in 0..(ScalarLen - 1) : Deref(sig)[i + 1] = ReadField(sig, "r")[i + 1]
    /\ \A i \in ScalarLen..(2 * ScalarLen - 1) : Deref(sig)[i + 1] = ReadField(sig, "s")[i - ScalarLen + 1]
    /\ <<Deref(sig)[2 * ScalarLen + 1]>> = ReadField(sig, "v")

\* only the byte at Rust index i differs between two Signatures
OnlyByte(a, b, i) == \A j \in 0..(SignatureLen - 1) : j # i => Deref(a)[j + 1] = Deref(b)[j + 1]

\* C9: from Signature::default() on, and after every call and every write,
\* the byte view shows r in bytes 0..32, s in bytes 32..64 and v in byte 64;
\* a write through the view shows in the field and a write to a field shows
\* in the view, and neither changes another byte.
C9_Layout ==
    /\ LayoutOK(signature)
    /\ signature = Repeat(0, SignatureLen)
    /\ [][ /\ LayoutOK(signature')
           /\ \A i \in ViewIndexes, mask \in Masks :
                 DoWriteView(i, mask) =>
                    /\ OnlyByte(signature, signature', i)
                    /\ (ReadField(signature', "r") \o ReadField(signature', "s")
                            \o ReadField(signature', "v"))[i + 1]
                         = XorByte(Deref(signature)[i + 1], mask)
           /\ \A x \in VInputs :
                 DoWriteV(x) =>
                    /\ OnlyByte(signature, signature', 2 * ScalarLen)
                    /\ Deref(signature')[2 * ScalarLen + 1] = x
           /\ \A f \in {"r", "s"} :
                 DoWriteScalar(f, ScalarLen - 1) =>
                    /\ OnlyByte(signature, signature', IF f = "r" THEN ScalarLen - 1 ELSE 2 * ScalarLen - 1)
                    /\ Deref(signature')[(IF f = "r" THEN ScalarLen ELSE 2 * ScalarLen)] = 0 ]_vars

\* byte 0 of what sign returned was flipped through the view, and the field
\* r shows it
C9_Witness ==
    /\ signed.done /\ signed.res.tag = "Ok"
    /\ edits > 0
    /\ ReadField(signature, "r")[1] = XorByte(ReadField(signed.res.val, "r")[1], 1)
    /\ ReadField(signature, "s") = ReadField(signed.res.val, "s")

\* C10: with a recovery id in range, verify returns what it returns for every
\* other recovery id in range; the key it checks against is 0x04 followed by
\* the 64 bytes of the public key.
C10_RecoveryIdIgnored ==
    (called.op = "verify" /\ VOf(called.signature) <= MaxRecoveryId) =>
        /\ \A v \in 0..MaxRecoveryId :
              Verify(called.public, WriteField(called.signature, "v", <<v>>), called.message)
                 = called.res
        /\ TaggedPublic(called.public) = <<4>> \o called.public

\* a signature is accepted under a recovery id other than the one sign gave
C10_Witness ==
    /\ signed.done /\ signed.res.tag = "Ok"
    /\ called.op = "verify"
    /\ VOf(called.signature) <= MaxRecoveryId
    /\ VOf(called.signature) # VOf(signed.res.val)
    /\ called.res = Ok(TRUE)

====
